---- MODULE Spec2Model ----
(***************************************************************************)
(* Model of server.js: an Express relay with three POST endpoints          *)
(* (/api/chat, /api/recommend, /api/audit) that forward a chat-completion  *)
(* payload to an upstream HTTPS API through callDeepSeek and reshape the   *)
(* answer.                                                                 *)
(*                                                                         *)
(* Text is a sequence of symbols.  A symbol is either a plain lexeme       *)
(* [c |-> "..."] (one whitespace character, one punctuation character, one *)
(* word or one number) or a JSON string literal [s |-> <content text>].    *)
(* JavaScript values are tagged records, one field name per type.          *)
(***************************************************************************)
EXTENDS Integers, Sequences, FiniteSets, TLC

\* ------------------------------------------------------------------ text

Ch(c) == [c |-> c]
Lit(txt) == [s |-> txt]
W(w) == <<Ch(w)>>
IsLit(sym) == "s" \in DOMAIN sym
IsCh(sym, c) == (~IsLit(sym)) /\ sym.c = c

\* String.prototype.trim strips these from both ends; JSON.parse skips them
\* between tokens.
WhiteSpace == {" ", "\n"}
IsWs(sym) == (~IsLit(sym)) /\ sym.c \in WhiteSpace

RECURSIVE TrimStart(_)
TrimStart(txt) ==
  IF txt # <<>> /\ IsWs(Head(txt)) THEN TrimStart(Tail(txt)) ELSE txt

RECURSIVE TrimEnd(_)
TrimEnd(txt) ==
  IF txt # <<>> /\ IsWs(txt[Len(txt)])
  THEN TrimEnd(SubSeq(txt, 1, Len(txt) - 1))
  ELSE txt

Trim(txt) == TrimEnd(TrimStart(txt))

RECURSIVE Join(_, _)
Join(parts, sep) ==
  IF parts = <<>> THEN <<>>
  ELSE IF Len(parts) = 1 THEN parts[1]
  ELSE parts[1] \o sep \o Join(Tail(parts), sep)

\* ---------------------------------------------------------- JS values

Undefined == [t |-> "undefined"]
Null == [t |-> "null"]
Num(n) == [t |-> "num", n |-> n]
Bool(b) == [t |-> "bool", b |-> b]
Str(txt) == [t |-> "str", s |-> txt]
Arr(elems) == [t |-> "arr", a |-> elems]
Member(k, v) == [k |-> k, v |-> v]
Obj(members) == [t |-> "obj", o |-> members]

Truthy(v) ==
  CASE v.t = "undefined" -> FALSE
    [] v.t = "null" -> FALSE
    [] v.t = "num" -> v.n # 0
    [] v.t = "bool" -> v.b
    [] v.t = "str" -> v.s # <<>>
    [] OTHER -> TRUE

\* a || b
OrElse(a, b) == IF Truthy(a) THEN a ELSE b

IsNullish(v) == v.t \in {"undefined", "null"}

\* typeof v === 'object'
TypeofObject(v) == v.t \in {"null", "arr", "obj"}

HasMember(members, k) == \E i \in 1..Len(members) : members[i].k = k
MemberValue(members, k) ==
  members[CHOOSE i \in 1..Len(members) : members[i].k = k].v

\* Assignment o[k] = v on an ordinary object: replaces in place, else appends.
Put(members, k, v) ==
  IF HasMember(members, k)
  THEN [i \in 1..Len(members) |->
          IF members[i].k = k THEN Member(k, v) ELSE members[i]]
  ELSE Append(members, Member(k, v))

\* Array (and string) indices as property keys.
IndexKeys(n) == {W(ToString(i)) : i \in 0..(n - 1)}
IndexOf(k, n) == CHOOSE i \in 0..(n - 1) : W(ToString(i)) = k

\* Object.prototype.hasOwnProperty.call(v, k), v not null or undefined.
HasOwnProperty(v, k) ==
  CASE v.t = "obj" -> HasMember(v.o, k)
    [] v.t = "arr" -> k = W("length") \/ k \in IndexKeys(Len(v.a))
    [] v.t = "str" -> k = W("length") \/ k \in IndexKeys(Len(v.s))
    [] OTHER -> FALSE

\* v[k] for v not null or undefined (reading a property of those throws).
Get(v, k) ==
  CASE v.t = "obj" -> IF HasMember(v.o, k) THEN MemberValue(v.o, k) ELSE Undefined
    [] v.t = "arr" ->
         IF k = W("length") THEN Num(Len(v.a))
         ELSE IF k \in IndexKeys(Len(v.a)) THEN v.a[IndexOf(k, Len(v.a)) + 1]
         ELSE Undefined
    [] v.t = "str" ->
         IF k = W("length") THEN Num(Len(v.s))
         ELSE IF k \in IndexKeys(Len(v.s)) THEN Str(<<v.s[IndexOf(k, Len(v.s)) + 1]>>)
         ELSE Undefined
    [] OTHER -> Undefined

\* String(v)
RECURSIVE ToStr(_)
ToStr(v) ==
  CASE v.t = "undefined" -> W("undefined")
    [] v.t = "null" -> W("null")
    [] v.t = "num" -> W(ToString(v.n))
    [] v.t = "bool" -> IF v.b THEN W("true") ELSE W("false")
    [] v.t = "str" -> v.s
    [] v.t = "arr" ->
         Join([i \in 1..Len(v.a) |->
                 IF IsNullish(v.a[i]) THEN <<>> ELSE ToStr(v.a[i])], W(","))
    [] OTHER -> W("[object Object]")

\* ------------------------------------------------------- JSON.parse

Fail == [ok |-> FALSE]
Ok(v, i) == [ok |-> TRUE, v |-> v, i |-> i]

\* Number lexemes: the one-digit integers.
NumLexemes == {ToString(n) : n \in 0..9}
NumOf(c) == CHOOSE n \in 0..9 : ToString(n) = c

RECURSIVE SkipWs(_, _)
SkipWs(txt, i) ==
  IF i <= Len(txt) /\ IsWs(txt[i]) THEN SkipWs(txt, i + 1) ELSE i

At(txt, i, c) == i <= Len(txt) /\ IsCh(txt[i], c)

RECURSIVE ParseValue(_, _)
RECURSIVE ParseMembers(_, _, _)
RECURSIVE ParseElements(_, _, _)

ParseValue(txt, i0) ==
  LET i == SkipWs(txt, i0) IN
  IF i > Len(txt) THEN Fail
  ELSE LET sym == txt[i] IN
    IF IsLit(sym) THEN Ok(Str(sym.s), i + 1)
    ELSE IF sym.c = "{" THEN
      LET j == SkipWs(txt, i + 1) IN
      IF At(txt, j, "}") THEN Ok(Obj(<<>>), j + 1) ELSE ParseMembers(txt, j, <<>>)
    ELSE IF sym.c = "[" THEN
      LET j == SkipWs(txt, i + 1) IN
      IF At(txt, j, "]") THEN Ok(Arr(<<>>), j + 1) ELSE ParseElements(txt, j, <<>>)
    ELSE IF sym.c \in NumLexemes THEN Ok(Num(NumOf(sym.c)), i + 1)
    ELSE IF sym.c = "null" THEN Ok(Null, i + 1)
    ELSE IF sym.c = "true" THEN Ok(Bool(TRUE), i + 1)
    ELSE IF sym.c = "false" THEN Ok(Bool(FALSE), i + 1)
    ELSE Fail

ParseMembers(txt, i, acc) ==
  IF i > Len(txt) \/ ~IsLit(txt[i]) THEN Fail
  ELSE LET c == SkipWs(txt, i + 1) IN
    IF ~At(txt, c, ":") THEN Fail
    ELSE LET r == ParseValue(txt, c + 1) IN
      IF ~r.ok THEN Fail
      ELSE LET j == SkipWs(txt, r.i)
               acc2 == Put(acc, txt[i].s, r.v)
           IN IF At(txt, j, "}") THEN Ok(Obj(acc2), j + 1)
              ELSE IF At(txt, j, ",") THEN ParseMembers(txt, SkipWs(txt, j + 1), acc2)
              ELSE Fail

ParseElements(txt, i, acc) ==
  LET r == ParseValue(txt, i) IN
  IF ~r.ok THEN Fail
  ELSE LET j == SkipWs(txt, r.i)
           acc2 == Append(acc, r.v)
       IN IF At(txt, j, "]") THEN Ok(Arr(acc2), j + 1)
          ELSE IF At(txt, j, ",") THEN ParseElements(txt, j + 1, acc2)
          ELSE Fail

\* JSON.parse(txt): [ok |-> TRUE, v |-> value], or [ok |-> FALSE] for a
\* SyntaxError.
JSONParse(txt) ==
  LET r == ParseValue(txt, 1) IN
  IF r.ok /\ SkipWs(txt, r.i) > Len(txt) THEN [ok |-> TRUE, v |-> r.v] ELSE Fail

\* --------------------------------------------------- JSON.stringify

RECURSIVE Stringify(_)
Stringify(v) ==
  CASE v.t = "null" -> W("null")
    [] v.t = "undefined" -> W("null")
    [] v.t = "num" -> W(ToString(v.n))
    [] v.t = "bool" -> IF v.b THEN W("true") ELSE W("false")
    [] v.t = "str" -> <<Lit(v.s)>>
    [] v.t = "arr" ->
         W("[") \o Join([i \in 1..Len(v.a) |-> Stringify(v.a[i])], W(",")) \o W("]")
    [] OTHER ->
         LET kept == SelectSeq(v.o, LAMBDA m : m.v.t # "undefined") IN
         W("{")
           \o Join([i \in 1..Len(kept) |->
                      <<Lit(kept[i].k)>> \o W(":") \o Stringify(kept[i].v)], W(","))
           \o W("}")

\* ------------------------------------- reply.match(/\{[\s\S]*\}/)

Positions(txt, c) == {i \in 1..Len(txt) : IsCh(txt[i], c)}
Least(S) == CHOOSE x \in S : \A y \in S : x <= y
Greatest(S) == CHOOSE x \in S : \A y \in S : y <= x

\* The leftmost match of the greedy pattern: from the first "{" to the last
\* "}" of the text, when that "}" comes after it.
BraceMatch(txt) ==
  LET opens == Positions(txt, "{")
      closes == Positions(txt, "}")
  IN IF opens # {} /\ closes # {} /\ Greatest(closes) > Least(opens)
     THEN [found |-> TRUE, text |-> SubSeq(txt, Least(opens), Greatest(closes))]
     ELSE [found |-> FALSE]

\* ------------------------------------------------------------ errors

Error(name, message) == [name |-> name, message |-> message]

\* String(err) for an Error object.
ErrToStr(err) ==
  IF err.message = <<>> THEN W(err.name) ELSE W(err.name) \o W(": ") \o err.message

MissingKeyError == Error("Error", W("Missing SILICONFLOW_API_KEY"))
TimeoutError == Error("Error", W("Request timed out"))
UpstreamError(status, body) ==
  Error("Error", W("DeepSeek API error ") \o W(ToString(status)) \o W(": ") \o body)
\* What the runtime throws; only that the message is not empty matters.
JsonSyntaxError == Error("SyntaxError", W("Unexpected token in JSON"))
NullReadError == Error("TypeError", W("Cannot read properties of null (reading 'role')"))
TrimTypeError == Error("TypeError", W("data.choices[0].message.content.trim is not a function"))
SocketError == Error("Error", W("socket hang up"))

Response(status, body) == [status |-> status, body |-> body]

\* res.status(500).json({ error: err.message || String(err) })
MutCatchGenericMessage(err) ==
  Response(500, Obj(<<Member(W("error"), Str(W("Internal Server Error")))>>))
MutCatchNoStatus(err) ==
  Response(200,
    Obj(<<Member(W("error"),
                 Str(IF err.message # <<>> THEN err.message ELSE ErrToStr(err)))>>))
CatchResponse(err) ==
  Response(500,
    Obj(<<Member(W("error"),
                 Str(IF err.message # <<>> THEN err.message ELSE ErrToStr(err)))>>))

\* res.status(400).json({ error: 'message is required' })
MessageRequiredResponse ==
  Response(400, Obj(<<Member(W("error"), Str(W("message is required")))>>))

\* res.status(500).json({ error: '...', raw: reply }); the error text is the
\* source's Chinese sentence, glossed.
UnparsableResponse(reply) ==
  Response(500, Obj(<<Member(W("error"), Str(W("AI reply cannot be parsed as JSON"))),
                      Member(W("raw"), Str(reply))>>))

\* ---------------------------------------------------- prompt builders

Msg(role, content) == [role |-> role, content |-> content]

\* The fixed instruction lines are the source's Chinese sentences, glossed,
\* one symbol per line.
ChatLines ==
  << W("You are a vehicle parametric design assistant (for non-expert users)."),
     W("Friendly and concise: conclusion first, then 1-2 sentences of reasons."),
     W("When the user must act, give a clear parameter direction or range."),
     W("When the question is unclear, first ask 1 key question."),
     W("Judge with the current parameters (units as in the UI)."),
     W("Current parameters:") >>

RecommendLines ==
  << W("You are a vehicle parameter recommender."),
     W("Output only a strict JSON object, no explanation or code block."),
     W("Format: {\"result\":{...},\"reason\":\"...\"}."),
     W("The keys of result must come from the given key list."),
     W("reason explains the recommendation in 1-2 Chinese sentences."),
     W("Values must be reasonable, units as in the front end.") >>

AuditLines ==
  << W("You are a vehicle parameter audit assistant."),
     W("Output only a strict JSON object, no explanation or code block."),
     W("Format: {\"ok\":true/false,\"issues\":[...],\"suggestions\":[...]}."),
     W("issues lists what is clearly unreasonable, suggestions gives short advice."),
     W("With no clear problem, ok is true and issues is empty."),
     W("Describe in Chinese and cite the parameters' Chinese names.") >>

\* process.env.X || fallback
EnvOr(v, fallback) == IF Truthy(v) THEN v.s ELSE fallback

\* const message = String(req.body.message || '').trim()
MutChatMessageNoTrim(body) == ToStr(OrElse(Get(body, W("message")), Str(<<>>)))
ChatMessage(body) == Trim(ToStr(OrElse(Get(body, W("message")), Str(<<>>))))

\* req.body.params || {}
ParamsOf(body) == OrElse(Get(body, W("params")), Obj(<<>>))

\* Array.isArray(req.body.f) ? req.body.f : []
ArrayField(body, f) ==
  LET v == Get(body, W(f)) IN IF v.t = "arr" THEN v.a ELSE <<>>

\* m.role === 'ai' ? 'assistant' : 'user'
MutRoleSwapped(m) == IF Get(m, W("role")) = Str(W("ai")) THEN W("user") ELSE W("assistant")
MapRole(m) == IF Get(m, W("role")) = Str(W("ai")) THEN W("assistant") ELSE W("user")

\* Reading m.role of a null history entry throws a TypeError.
HistoryThrows(history) == \E i \in 1..Len(history) : IsNullish(history[i])

ChatSystemPrompt(params) == Join(Append(ChatLines, Stringify(params)), W("\n"))

ChatMessages(body) ==
  LET history == ArrayField(body, "history") IN
  <<Msg(W("system"), ChatSystemPrompt(ParamsOf(body)))>>
    \o [i \in 1..Len(history) |->
          Msg(MapRole(history[i]),
              ToStr(OrElse(Get(history[i], W("content")), Str(<<>>))))]
    \o <<Msg(W("user"), ChatMessage(body))>>

ChatPayload(env, body) ==
  [ model |-> EnvOr(env.chatModel, W("deepseek-ai/DeepSeek-V3")),
    messages |-> ChatMessages(body),
    temperature |-> "0.6",
    max_tokens |-> 1000 ]

RecommendPayload(env, body) ==
  LET userIntent == Trim(ToStr(OrElse(Get(body, W("userIntent")), Str(<<>>))))
      keys == ArrayField(body, "keys")
      systemPrompt ==
        Join(Append(RecommendLines, W("Key list:") \o Stringify(Arr(keys))), W("\n"))
      user == Obj(<<Member(W("userIntent"), Str(userIntent)),
                    Member(W("params"), ParamsOf(body))>>)
  IN [ model |-> EnvOr(env.recommendModel, W("deepseek-ai/DeepSeek-V3")),
       messages |-> <<Msg(W("system"), systemPrompt), Msg(W("user"), Stringify(user))>>,
       temperature |-> "0.2",
       max_tokens |-> 800 ]

AuditPayload(env, body) ==
  LET labels == OrElse(Get(body, W("labels")), Obj(<<>>))
      user == Obj(<<Member(W("params"), ParamsOf(body)), Member(W("labels"), labels)>>)
  IN [ model |-> EnvOr(env.auditModel, W("deepseek-ai/DeepSeek-V2.5")),
       messages |-> <<Msg(W("system"), Join(AuditLines, W("\n"))),
                      Msg(W("user"), Stringify(user))>>,
       temperature |-> "0.3",
       max_tokens |-> 600 ]

PayloadOf(env, endpoint, body) ==
  CASE endpoint = "chat" -> ChatPayload(env, body)
    [] endpoint = "recommend" -> RecommendPayload(env, body)
    [] OTHER -> AuditPayload(env, body)

\* ------------------------------------------------ response extractors

\* a && a[k]: the chain stops at the first falsy value.
Dig(v, k) == IF Truthy(v) THEN Get(v, W(k)) ELSE Undefined

\* data && data.choices && data.choices[0] && data.choices[0].message
\*   && data.choices[0].message.content
ContentOf(data) == Dig(Dig(Dig(Dig(data, "choices"), "0"), "message"), "content")

\* ... ? data.choices[0].message.content.trim() : fallback.  A truthy content
\* that is not a string has no trim method: [ok |-> FALSE] is that TypeError.
ReplyOf(data, fallback) ==
  LET content == ContentOf(data) IN
  IF ~Truthy(content) THEN [ok |-> TRUE, text |-> fallback]
  ELSE IF content.t = "str" THEN [ok |-> TRUE, text |-> Trim(content.s)]
  ELSE [ok |-> FALSE]

ChatFallback == W("No valid reply was obtained")

\* jsonText = match ? match[0] : reply; JSON.parse(jsonText)
ExtractJson(reply) ==
  LET m == BraceMatch(reply) IN JSONParse(IF m.found THEN m.text ELSE reply)

\* if (parsed && typeof parsed === 'object' && parsed.result)
UsesResultField(parsed) ==
  Truthy(parsed) /\ TypeofObject(parsed) /\ Truthy(Get(parsed, W("result")))

\* result and reason of the recommend handler, from their initial {} and ''.
Candidate(parsed) ==
  IF UsesResultField(parsed)
  THEN [ result |-> Get(parsed, W("result")),
         reason |-> OrElse(Get(parsed, W("reason")), Str(<<>>)) ]
  ELSE IF Truthy(parsed) /\ TypeofObject(parsed)
  THEN [result |-> parsed, reason |-> Str(<<>>)]
  ELSE [result |-> Obj(<<>>), reason |-> Str(<<>>)]

\* keys.forEach((k) => { if (hasOwnProperty.call(result, k)) filtered[k] = result[k] })
RECURSIVE FilterInto(_, _, _)
FilterInto(filtered, result, keys) ==
  IF keys = <<>> THEN filtered
  ELSE LET k == ToStr(Head(keys)) IN
       FilterInto(IF HasOwnProperty(result, k)
                  THEN Put(filtered, k, Get(result, k))
                  ELSE filtered,
                  result, Tail(keys))

MutFilterNone(result, keys) == IF result.t = "obj" THEN result.o ELSE <<>>
Filter(result, keys) == FilterInto(<<>>, result, keys)

\* res.json({ result: filtered, reason })
RecommendResponse(parsed, keys) ==
  LET c == Candidate(parsed) IN
  Response(200, Obj(<<Member(W("result"), Obj(Filter(c.result, keys))),
                      Member(W("reason"), c.reason)>>))

\* ------------------------------------------------------ callDeepSeek

\* req.setTimeout(180000, ...)
TimeoutMs == 180000

\* if (!apiKey)
MutKeyNeverMissing(env) == FALSE
KeyMissing(env) == ~Truthy(env.apiKey)

\* if (res.statusCode < 200 || res.statusCode >= 300)
MutOnly4xx5xx(status) == status >= 400
IsErrorStatus(status) == status < 200 \/ status >= 300

\* The 'end' listener: how the promise settles for a status and a whole body.
Settle(status, text) ==
  IF IsErrorStatus(status)
  THEN [st |-> "rejected", err |-> UpstreamError(status, text)]
  ELSE LET r == JSONParse(text) IN
       IF r.ok THEN [st |-> "resolved", data |-> r.v]
       ELSE [st |-> "rejected", err |-> JsonSyntaxError]

\* --------------------------------------------------- bounds and inputs

\* Time advances in steps of TickMs, at most MaxTicks of them per call.
TickMs == TimeoutMs \div 2
MaxTicks == 3
\* History arrays have at most MaxHistory entries.
MaxHistory == 2

S(w) == Lit(W(w))
Sp == W(" ")
Nl == W("\n")

Envs ==
  { [apiKey |-> Undefined, chatModel |-> Undefined,
     recommendModel |-> Undefined, auditModel |-> Undefined],
    [apiKey |-> Str(<<>>), chatModel |-> Undefined,
     recommendModel |-> Undefined, auditModel |-> Undefined],
    [apiKey |-> Str(W("sk-test")), chatModel |-> Str(W("Qwen/Qwen2.5-7B-Instruct")),
     recommendModel |-> Undefined, auditModel |-> Str(<<>>)] }

SomeParams == Obj(<<Member(W("topSpeed"), Num(9)), Member(W("name"), Str(W("GT")))>>)

Messages ==
  { Undefined, Null, Num(0), Num(5), Bool(FALSE), Str(<<>>), Str(Sp), Str(Nl \o Sp),
    Str(W("hi")), Str(Sp \o W("hi") \o Sp \o W("there") \o Nl),
    Arr(<<>>), Arr(<<Str(Sp)>>), Obj(<<>>) }

HistoryEntries ==
  { Null, Num(7),
    Obj(<<Member(W("role"), Str(W("ai"))), Member(W("content"), Str(W("x")))>>),
    Obj(<<Member(W("role"), Str(W("user"))), Member(W("content"), Str(W("y")))>>),
    Obj(<<Member(W("role"), Str(W("system"))), Member(W("content"), Num(5))>>) }

Histories ==
  UNION {[1..n -> HistoryEntries] : n \in 0..MaxHistory}

WithField(members, k, v) ==
  IF v.t = "undefined" THEN members ELSE Append(members, Member(W(k), v))

ChatBody(message, params, history) ==
  Obj(WithField(WithField(WithField(<<>>, "message", message), "params", params),
                "history", history))

ChatBodies ==
  {ChatBody(m, Undefined, Undefined) : m \in Messages}
    \cup {ChatBody(Str(W("hi")), SomeParams, Arr(h)) : h \in Histories}
    \cup {ChatBody(Str(W("hi")), Undefined, Str(W("ai"))), Arr(<<>>)}

KeyLists ==
  { Undefined, Str(W("topSpeed")), Arr(<<>>),
    Arr(<<Str(W("topSpeed")), Str(W("range"))>>),
    Arr(<<Str(W("range"))>>),
    Arr(<<Str(W("result")), Str(W("reason")), Str(W("topSpeed"))>>),
    Arr(<<Str(W("length")), Str(W("0")), Str(W("color")), Str(W("color"))>>) }

RecommendBodies ==
  { Obj(WithField(<<Member(W("userIntent"), Str(Sp \o W("fast"))),
                    Member(W("params"), SomeParams)>>, "keys", ks)) : ks \in KeyLists }

AuditBodies ==
  { Obj(<<>>),
    Obj(<<Member(W("params"), SomeParams),
          Member(W("labels"), Obj(<<Member(W("topSpeed"), Str(W("Top speed")))>>))>>) }

Bodies(endpoint) ==
  CASE endpoint = "chat" -> ChatBodies
    [] endpoint = "recommend" -> RecommendBodies
    [] OTHER -> AuditBodies

Endpoints == {"chat", "recommend", "audit"}

\* Reply texts of the model for the two structured operations.
Pair(k, vsyms) == <<S(k)>> \o W(":") \o vsyms
Braces(parts) == W("{") \o Join(parts, W(",")) \o W("}")

SpecMap == Braces(<<Pair("topSpeed", W("9")), Pair("range", W("5")), Pair("color", <<S("red")>>)>>)

ObjectReplies ==
  { Braces(<<Pair("result", SpecMap), Pair("reason", <<S("ok")>>)>>),
    Braces(<<Pair("result", SpecMap)>>),
    SpecMap,
    Braces(<<Pair("result", <<S("ok")>>), Pair("reason", W("5"))>>),
    Braces(<<Pair("result", W("[") \o W("9") \o W("]"))>>),
    Braces(<<Pair("result", W("7"))>>),
    Braces(<<Pair("reason", <<S("ok")>>)>>),
    Braces(<<>>),
    Braces(<<Pair("ok", W("true")), Pair("issues", W("[") \o W("]"))>>) }
    \cup { Braces(<<Pair("result", falsy), Pair("reason", <<S("ok")>>), Pair("topSpeed", W("9"))>>) :
             falsy \in {W("null"), W("0"), W("false"), <<Lit(<<>>)>>} }

ScalarReplies == {W("5"), W("0"), W("null"), W("true"), <<S("ok")>>, W("[") \o W("9") \o W("]")}

BrokenReplies ==
  { <<>>, W("sorry"), W("{"), W("}") \o W("{"), W("{") \o W("sorry") \o W("}"),
    Braces(<<Pair("topSpeed", W("9"))>>) \o Sp \o W("or") \o Sp \o Braces(<<Pair("range", W("5"))>>),
    W("5") \o Sp \o W("km") }

\* A reply wrapped in commentary, as a code fence would wrap it.
Fenced(r) == W("Here is the JSON:") \o Nl \o r \o Nl \o W("Done.")

Replies ==
  ObjectReplies \cup ScalarReplies \cup BrokenReplies
    \cup {Fenced(r) : r \in {SpecMap, Braces(<<>>), W("5")}}
    \cup {Sp \o r \o Nl : r \in {SpecMap, W("null")}}

\* Upstream bodies.
Completion(contentSyms) ==
  Braces(<<Pair("choices",
    W("[") \o Braces(<<Pair("message", Braces(<<Pair("content", contentSyms)>>))>>) \o W("]"))>>)

CommonUpstreamBodies ==
  { Completion(<<Lit(Sp \o W("hello") \o Nl)>>),
    Completion(W("5")),
    Completion(W("null")),
    Braces(<<Pair("choices", W("[") \o W("]"))>>),
    Braces(<<Pair("error", <<S("rate limited")>>)>>),
    W("null"),
    W("<html>") \o W("Bad Gateway") \o W("</html>"),
    <<>> }

UpstreamBodies(endpoint) ==
  IF endpoint = "chat" THEN CommonUpstreamBodies
  ELSE CommonUpstreamBodies \cup {Completion(<<Lit(r)>>) : r \in Replies}

Statuses == {199, 200, 299, 300, 404, 500}

\* How the body arrives: no 'data' event for an empty body, else whole or in
\* two chunks.
Chunkings(text) ==
  IF text = <<>> THEN {<<>>}
  ELSE IF Len(text) = 1 THEN {<<text>>}
  ELSE { <<text>>,
         <<SubSeq(text, 1, Len(text) \div 2), SubSeq(text, Len(text) \div 2 + 1, Len(text))>> }

\* ------------------------------------------------------------- state

VARIABLES
  env,        \* process.env: apiKey and the three model names
  pc,         \* the request's step: Idle, Received, Validated, UpstreamCalled,
              \*   Extracted, Responded, Errored
  endpoint,   \* which POST handler runs
  body,       \* req.body
  sent,       \* the payloads written to upstream connections, in order
  conns,      \* upstream connections opened for the request
  sock,       \* the upstream connection: none, open, ended, destroyed, aborted
  idle,       \* ms since the connection last saw activity
  elapsed,    \* ms since the upstream call was issued
  upStatus,   \* res.statusCode, 0 before the response head arrives
  upRest,     \* chunks of the upstream body still to arrive
  upBody,     \* callDeepSeek's body, the chunks received so far
  promise,    \* the promise callDeepSeek returned
  reply,      \* the handler's reply
  parsed,     \* the handler's parsed
  out,        \* the success response computed, not yet sent
  responses,  \* the HTTP responses sent for the request, in order
  failure     \* which failure the request met, "none" if none

vars ==
  << env, pc, endpoint, body, sent, conns, sock, idle, elapsed, upStatus, upRest,
     upBody, promise, reply, parsed, out, responses, failure >>

upstreamVars == <<sock, idle, elapsed, upStatus, upRest, upBody>>
handlerVars == <<reply, parsed, out>>

Init ==
  /\ env \in Envs
  /\ pc = "Idle"
  /\ endpoint = "none"
  /\ body = Undefined
  /\ sent = <<>>
  /\ conns = 0
  /\ sock = "none"
  /\ idle = 0
  /\ elapsed = 0
  /\ upStatus = 0
  /\ upRest = <<>>
  /\ upBody = <<>>
  /\ promise = [st |-> "none"]
  /\ reply = <<>>
  /\ parsed = Null
  /\ out = Response(0, Undefined)
  /\ responses = <<>>
  /\ failure = "none"

\* The handler ends with an error response.
Fails(resp, kind) ==
  /\ responses' = Append(responses, resp)
  /\ pc' = "Errored"
  /\ failure' = kind

\* Express routes a POST to its handler.
Receive ==
  /\ pc = "Idle"
  /\ \E e \in Endpoints : \E b \in Bodies(e) :
       /\ endpoint' = e
       /\ body' = b
  /\ pc' = "Received"
  /\ UNCHANGED <<env, sent, conns, upstreamVars, promise, handlerVars, responses, failure>>

\* The handler reads its fields; chat refuses an empty message.
Validate ==
  /\ pc = "Received"
  /\ IF endpoint = "chat" /\ ChatMessage(body) = <<>>
     THEN Fails(MessageRequiredResponse, "validation")
     ELSE /\ pc' = "Validated"
          /\ UNCHANGED <<responses, failure>>
  /\ UNCHANGED <<env, endpoint, body, sent, conns, upstreamVars, promise, handlerVars>>

\* The handler builds the payload and calls callDeepSeek, whose executor runs
\* at once: it rejects without a key, else opens the connection and writes.
CallUpstream ==
  /\ pc = "Validated"
  /\ IF endpoint = "chat" /\ HistoryThrows(ArrayField(body, "history"))
     THEN /\ Fails(CatchResponse(NullReadError), "exception")
          /\ UNCHANGED <<sent, conns, upstreamVars, promise>>
     ELSE IF KeyMissing(env)
     THEN /\ promise' = [st |-> "rejected", err |-> MissingKeyError]
          /\ failure' = "config"
          /\ pc' = "UpstreamCalled"
          /\ UNCHANGED <<sent, conns, upstreamVars, responses>>
     ELSE /\ promise' = [st |-> "pending"]
          /\ sent' = Append(sent, PayloadOf(env, endpoint, body))
          /\ conns' = conns + 1
          /\ sock' = "open"
          /\ idle' = 0
          /\ elapsed' = 0
          /\ pc' = "UpstreamCalled"
          /\ UNCHANGED <<upStatus, upRest, upBody, responses, failure>>
  /\ UNCHANGED <<env, endpoint, body, handlerVars>>

\* Time passes with the connection open and silent.  The idle timer fires at
\* TimeoutMs, so time does not pass beyond it.
Tick ==
  /\ sock = "open"
  /\ idle < TimeoutMs
  /\ elapsed + TickMs <= MaxTicks * TickMs
  /\ idle' = idle + TickMs
  /\ elapsed' = elapsed + TickMs
  /\ UNCHANGED <<env, pc, endpoint, body, sent, conns, sock, upStatus, upRest, upBody,
                 promise, handlerVars, responses, failure>>

\* The response head arrives: the https.request callback runs.
UpstreamHead ==
  /\ sock = "open"
  /\ upStatus = 0
  /\ \E st \in Statuses : \E text \in UpstreamBodies(endpoint) :
       /\ st = 200 \/ text \in CommonUpstreamBodies
       /\ upStatus' = st
       /\ upRest' \in Chunkings(text)
  /\ idle' = 0
  /\ UNCHANGED <<env, pc, endpoint, body, sent, conns, sock, elapsed, upBody,
                 promise, handlerVars, responses, failure>>

\* res.on('data', (chunk) => (body += chunk))
UpstreamData ==
  /\ sock = "open"
  /\ upStatus # 0
  /\ upRest # <<>>
  /\ upBody' = upBody \o Head(upRest)
  /\ upRest' = Tail(upRest)
  /\ idle' = 0
  /\ UNCHANGED <<env, pc, endpoint, body, sent, conns, sock, elapsed, upStatus,
                 promise, handlerVars, responses, failure>>

\* res.on('end', ...)
UpstreamEnd ==
  /\ sock = "open"
  /\ upStatus # 0
  /\ upRest = <<>>
  /\ sock' = "ended"
  /\ promise' = Settle(upStatus, upBody)
  /\ failure' = IF IsErrorStatus(upStatus) THEN "upstream_status"
                ELSE IF ~JSONParse(upBody).ok THEN "body_parse"
                ELSE failure
  /\ UNCHANGED <<env, pc, endpoint, body, sent, conns, idle, elapsed, upStatus, upRest,
                 upBody, handlerVars, responses>>

\* req.setTimeout(180000, () => req.destroy(new Error('Request timed out'))):
\* the connection has been silent for TimeoutMs; destroy emits 'error'.
UpstreamTimeout ==
  /\ sock = "open"
  /\ idle >= TimeoutMs
  /\ sock' = "destroyed"
  /\ promise' = [st |-> "rejected", err |-> TimeoutError]
  /\ failure' = "timeout"
  /\ UNCHANGED <<env, pc, endpoint, body, sent, conns, idle, elapsed, upStatus, upRest,
                 upBody, handlerVars, responses>>

\* req.on('error', reject): the connection fails.
UpstreamSocketError ==
  /\ sock = "open"
  /\ sock' = "destroyed"
  /\ promise' = [st |-> "rejected", err |-> SocketError]
  /\ failure' = "socket"
  /\ UNCHANGED <<env, pc, endpoint, body, sent, conns, idle, elapsed, upStatus, upRest,
                 upBody, handlerVars, responses>>

\* The upstream closes the connection after the response head and before the
\* body is complete.  The request has its response, so no 'error' is emitted on
\* it, and res has no 'aborted' or 'error' listener: current runtimes emit
\* nothing the code listens to and the promise stays pending; older ones still
\* emit 'end', and the listener settles the promise with the partial body.
UpstreamAborted ==
  /\ sock = "open"
  /\ upStatus # 0
  /\ upRest # <<>>
  /\ sock' = "aborted"
  /\ \/ UNCHANGED <<promise, failure>>
     \/ /\ promise' = Settle(upStatus, upBody)
        /\ failure' = IF IsErrorStatus(upStatus) THEN "upstream_status"
                      ELSE IF ~JSONParse(upBody).ok THEN "body_parse"
                      ELSE failure
  /\ UNCHANGED <<env, pc, endpoint, body, sent, conns, idle, elapsed, upStatus, upRest,
                 upBody, handlerVars, responses>>

\* The await throws: the handler's catch answers.
Catch ==
  /\ pc = "UpstreamCalled"
  /\ promise.st = "rejected"
  /\ Fails(CatchResponse(promise.err), failure)
  /\ UNCHANGED <<env, endpoint, body, sent, conns, upstreamVars, promise, handlerVars>>

\* The await returns: the handler extracts the reply and shapes the answer.
Extract ==
  /\ pc = "UpstreamCalled"
  /\ promise.st = "resolved"
  /\ LET r == ReplyOf(promise.data, IF endpoint = "chat" THEN ChatFallback ELSE <<>>) IN
     IF ~r.ok
     THEN /\ Fails(CatchResponse(TrimTypeError), "exception")
          /\ UNCHANGED handlerVars
     ELSE IF endpoint = "chat"
     THEN /\ reply' = r.text
          /\ out' = Response(200, Obj(<<Member(W("reply"), Str(r.text))>>))
          /\ pc' = "Extracted"
          /\ UNCHANGED <<parsed, responses, failure>>
     ELSE LET j == ExtractJson(r.text) IN
          IF ~j.ok
          THEN /\ reply' = r.text
               /\ Fails(UnparsableResponse(r.text), "reply_parse")
               /\ UNCHANGED <<parsed, out>>
          ELSE /\ reply' = r.text
               /\ parsed' = j.v
               /\ out' = IF endpoint = "recommend"
                         THEN RecommendResponse(j.v, ArrayField(body, "keys"))
                         ELSE Response(200, j.v)
               /\ pc' = "Extracted"
               /\ UNCHANGED <<responses, failure>>
  /\ UNCHANGED <<env, endpoint, body, sent, conns, upstreamVars, promise>>

\* res.json(...)
Respond ==
  /\ pc = "Extracted"
  /\ responses' = Append(responses, out)
  /\ pc' = "Responded"
  /\ UNCHANGED <<env, endpoint, body, sent, conns, upstreamVars, promise, handlerVars,
                 failure>>

Next ==
  \/ Receive
  \/ Validate
  \/ CallUpstream
  \/ Tick
  \/ UpstreamHead
  \/ UpstreamData
  \/ UpstreamEnd
  \/ UpstreamTimeout
  \/ UpstreamSocketError
  \/ UpstreamAborted
  \/ Catch
  \/ Extract
  \/ Respond

Spec == Init /\ [][Next]_vars

\* ------------------------------------------------------- properties

Done == pc \in {"Responded", "Errored"}
HasError(resp) == resp.body.t = "obj" /\ HasMember(resp.body.o, W("error"))
ErrorText(resp) == MemberValue(resp.body.o, W("error"))
NoKey == env.apiKey.t = "undefined" \/ (env.apiKey.t = "str" /\ env.apiKey.s = <<>>)

\* The request's message, as text, is empty or whitespace only (a missing,
\* null, 0 or false message is the empty text).
RawMessage == Get(body, W("message"))
MessageIsBlank ==
  \/ ~Truthy(RawMessage)
  \/ \A i \in 1..Len(ToStr(RawMessage)) : ToStr(RawMessage)[i] \in {Ch(" "), Ch("\n")}

\* The request's history and keys arrays, empty when the field is no array.
RawHistory == IF Get(body, W("history")).t = "arr" THEN Get(body, W("history")).a ELSE <<>>
RawKeys == IF Get(body, W("keys")).t = "arr" THEN Get(body, W("keys")).a ELSE <<>>
HistoryHasNull == \E i \in 1..Len(RawHistory) : RawHistory[i].t = "null"

\* C1: POST /api/chat with an empty or whitespace-only message is answered 400
\* with an error field and never reaches upstream; with a message that is not
\* empty after trimming it is never answered 400 (only 200 or 500).
C1_ChatValidation ==
  (endpoint = "chat" /\ pc # "Idle") =>
    /\ MessageIsBlank =>
         /\ conns = 0 /\ sent = <<>> /\ sock = "none"
         /\ pc \in {"Received", "Errored"}
         /\ pc = "Errored" =>
              /\ Len(responses) = 1
              /\ responses[1].status = 400
              /\ HasError(responses[1])
    /\ ~MessageIsBlank =>
         /\ \A i \in 1..Len(responses) : responses[i].status \in {200, 500}
         /\ Done => Len(responses) = 1

C1_Witness ==
  /\ endpoint = "chat" /\ pc = "Errored" /\ ~NoKey
  /\ RawMessage.t = "str" /\ RawMessage.s # <<>> /\ MessageIsBlank
  /\ responses = <<MessageRequiredResponse>>

\* The result map of a recommend response.
ResultOf(resp) == MemberValue(resp.body.o, W("result"))

\* C2: the result map of a 200 response of POST /api/recommend only has keys
\* that are in the request's keys, whatever the model replied.
C2_ResultKeysWhitelisted ==
  endpoint = "recommend" =>
    \A r \in {out} \cup {responses[i] : i \in 1..Len(responses)} :
      r.status = 200 =>
        /\ r.body.t = "obj" /\ HasMember(r.body.o, W("result"))
        /\ ResultOf(r).t = "obj"
        /\ \A m \in 1..Len(ResultOf(r).o) :
             \E i \in 1..Len(RawKeys) : RawKeys[i] = Str(ResultOf(r).o[m].k)

C2_Witness ==
  /\ endpoint = "recommend" /\ pc = "Responded"
  /\ ResultOf(responses[1]).o # <<>>
  /\ HasOwnProperty(Candidate(parsed).result, W("color"))
  /\ ~HasMember(ResultOf(responses[1]).o, W("color"))

\* C3 as claimed: without SILICONFLOW_API_KEY every request to a POST endpoint,
\* whatever its body, is answered 500 with the missing-configuration message.
C3_AlwaysMissingKey500 ==
  (NoKey /\ Done) =>
    /\ Len(responses) = 1
    /\ responses[1].status = 500
    /\ HasError(responses[1])
    /\ ErrorText(responses[1]) = Str(W("Missing SILICONFLOW_API_KEY"))

\* C3 as amended: without SILICONFLOW_API_KEY no connection is opened, and a
\* request is answered 500 with the missing-configuration message unless it is
\* a chat request that ends before the upstream call: 400 for an empty message,
\* 500 with the TypeError's message for a null history entry.
C3_MissingKey ==
  NoKey =>
    /\ conns = 0
    /\ pc \notin {"Extracted", "Responded"}
    /\ Done =>
         /\ Len(responses) = 1
         /\ HasError(responses[1])
         /\ IF endpoint = "chat" /\ MessageIsBlank
            THEN responses[1].status = 400
            ELSE IF endpoint = "chat" /\ HistoryHasNull
            THEN /\ responses[1].status = 500
                 /\ ErrorText(responses[1]) = Str(NullReadError.message)
            ELSE /\ responses[1].status = 500
                 /\ ErrorText(responses[1]) = Str(W("Missing SILICONFLOW_API_KEY"))

C3_Witness ==
  /\ NoKey /\ endpoint = "chat" /\ ~MessageIsBlank /\ ~HistoryHasNull /\ RawHistory # <<>>
  /\ pc = "Errored"
  /\ responses[1].status = 500
  /\ ErrorText(responses[1]) = Str(W("Missing SILICONFLOW_API_KEY"))

\* C4 as claimed: an upstream call whose response is not complete 180,000 ms
\* after it was issued has failed with the timeout error and its connection is
\* destroyed, whatever the upstream does: past the deadline no call is open.
C4_TimeoutIsDeadline ==
  elapsed > TimeoutMs =>
    /\ sock = "destroyed"
    /\ promise.st = "rejected"
    /\ promise.err = TimeoutError

\* The reply text yields no JSON object: it does not parse, or parses to
\* something that is no object.
ReplyHasNoObject ==
  LET j == ExtractJson(reply) IN (~j.ok) \/ j.v.t # "obj"

\* C5 as claimed: when the reply text of recommend or audit holds no parseable
\* JSON object, the request is answered 500 with error and raw = the reply,
\* never 200.
C5_NoObjectIs500 ==
  (endpoint \in {"recommend", "audit"} /\ Done /\ promise.st = "resolved"
     /\ failure # "exception" /\ ReplyHasNoObject) =>
    /\ Len(responses) = 1
    /\ responses[1].status = 500
    /\ HasError(responses[1])
    /\ Get(responses[1].body, W("raw")) = Str(reply)

\* The response's result holds exactly the whitelisted own properties of the
\* candidate.
FilteredFrom(candidate, resp) ==
  /\ \A m \in 1..Len(ResultOf(resp).o) :
       /\ HasOwnProperty(candidate, ResultOf(resp).o[m].k)
       /\ Get(candidate, ResultOf(resp).o[m].k) = ResultOf(resp).o[m].v
  /\ \A i \in 1..Len(RawKeys) :
       HasOwnProperty(candidate, ToStr(RawKeys[i])) =>
         HasMember(ResultOf(resp).o, ToStr(RawKeys[i]))

\* C6 as claimed: in recommend, a parsed object that has a result field, of
\* any value, answers with that field as the candidate map and the parsed
\* reason ('' when absent); only without a result field is the whole parsed
\* object the candidate, with reason ''.
C6_ResultFieldPresence ==
  (endpoint = "recommend" /\ pc = "Responded" /\ parsed.t = "obj") =>
    IF HasMember(parsed.o, W("result"))
    THEN /\ Get(responses[1].body, W("reason"))
              = (IF HasMember(parsed.o, W("reason")) /\ Truthy(Get(parsed, W("reason")))
                 THEN Get(parsed, W("reason")) ELSE Str(<<>>))
         /\ FilteredFrom(Get(parsed, W("result")), responses[1])
    ELSE /\ Get(responses[1].body, W("reason")) = Str(<<>>)
         /\ FilteredFrom(parsed, responses[1])

\* C7: once the upstream response has ended, a status outside [200,300)
\* rejected the call with an error carrying the status and the raw body, valid
\* JSON or not, and the request is answered 500, never 200; a status inside
\* rejected it when the body is not valid JSON and resolved it with the parsed
\* body otherwise.
C7_UpstreamStatus ==
  sock = "ended" =>
    /\ upRest = <<>>
    /\ IF upStatus < 200 \/ upStatus >= 300
       THEN /\ promise.st = "rejected"
            /\ promise.err.message =
                 W("DeepSeek API error ") \o W(ToString(upStatus)) \o W(": ") \o upBody
            /\ pc \in {"UpstreamCalled", "Errored"}
            /\ pc = "Errored" =>
                 /\ Len(responses) = 1
                 /\ responses[1].status = 500
                 /\ ErrorText(responses[1]) = Str(promise.err.message)
       ELSE IF JSONParse(upBody).ok
       THEN promise = [st |-> "resolved", data |-> JSONParse(upBody).v]
       ELSE /\ promise.st = "rejected"
            /\ pc \in {"UpstreamCalled", "Errored"}
            /\ pc = "Errored" => responses[1].status = 500

C7_Witness ==
  /\ sock = "ended" /\ upStatus = 404 /\ JSONParse(upBody).ok /\ Truthy(ContentOf(JSONParse(upBody).v))
  /\ pc = "Errored" /\ responses[1].status = 500

\* The steps a request may take, and what holds of its answer.
Edges ==
  { <<"Idle", "Received">>, <<"Received", "Validated">>, <<"Validated", "UpstreamCalled">>,
    <<"UpstreamCalled", "Extracted">>, <<"Extracted", "Responded">> }
    \cup {<<p, "Errored">> : p \in {"Received", "Validated", "UpstreamCalled", "Extracted"}}
C8_Forward ==
  /\ pc' = pc \/ <<pc, pc'>> \in Edges
  /\ responses # <<>> => responses' = responses
  /\ failure # "none" => failure' = failure
C8_Answered ==
  /\ Len(responses) <= 1
  /\ Len(responses) = 1 <=> Done
  /\ pc = "Responded" => (failure = "none" /\ responses[1].status = 200)
  /\ (Done /\ failure # "none") =>
       /\ pc = "Errored"
       /\ responses[1].status \in {400, 500}
       /\ HasError(responses[1])
  /\ pc = "Errored" => failure # "none"
  /\ failure # "none" => (pc = "Errored" \/ ENABLED Catch)

C9_Connections ==
  /\ conns <= 1
  /\ Len(sent) = conns
  /\ NoKey => (conns = 0 /\ sock = "none")
  /\ failure \in {"validation", "config"} => conns = 0
C9_NoRetry ==
  /\ conns' >= conns
  /\ failure # "none" => conns' = conns
  /\ sock \in {"ended", "destroyed", "aborted"} => sock' = sock

\* C9: a request opens at most one upstream connection: no failure is followed
\* by another attempt, and none is opened without the API credential.
C9_SingleConnection == [](C9_Connections) /\ [][C9_NoRetry]_vars

C9_Witness ==
  /\ pc = "Errored" /\ failure = "timeout" /\ conns = 1 /\ sock = "destroyed"
  /\ upStatus # 0

\* C10: a chat request with a non-empty message and a history of n entries
\* sends upstream n+2 messages: one system message, the history in its order
\* with role ai as assistant and any other role as user, and last one user
\* message holding the trimmed message.
C10_ChatMessageSequence ==
  (endpoint = "chat" /\ sent # <<>>) =>
    LET msgs == sent[1].messages
        n == Len(RawHistory)
    IN /\ ~MessageIsBlank
       /\ Len(msgs) = n + 2
       /\ msgs[1].role = W("system")
       /\ \A i \in 1..n :
            /\ msgs[i + 1].role =
                 (IF Get(RawHistory[i], W("role")) = Str(W("ai"))
                  THEN W("assistant") ELSE W("user"))
            /\ msgs[i + 1].content =
                 ToStr(OrElse(Get(RawHistory[i], W("content")), Str(<<>>)))
       /\ msgs[n + 2] = Msg(W("user"), Trim(ToStr(RawMessage)))

C10_Witness ==
  /\ endpoint = "chat" /\ sent # <<>>
  /\ Len(RawHistory) = 2
  /\ Get(RawHistory[1], W("role")) = Str(W("ai"))
  /\ Get(RawHistory[2], W("role")) = Str(W("system"))
  /\ sent[1].messages[2].role = W("assistant")
  /\ sent[1].messages[3].role = W("user")

====
